---- MODULE Spec2Model ----
(***************************************************************************)
(* The sensor-log analysis run of src/app.py as a state machine.            *)
(*                                                                         *)
(* One run of the script is one pass over its stages, each an action:      *)
(* the upload, the try-each-encoding loop, the three terminal checks, the  *)
(* timestamp normalization, the date filter, the summary, the z-score      *)
(* outlier detection, the CSV export, the outlier ratio, the correlation   *)
(* and the time-series view.  Bytes are integers 0..255, decoded text is a *)
(* sequence of code points, and numbers are exact decimals m * 10^-e, so   *)
(* every comparison the script makes is decided exactly.                   *)
(***************************************************************************)
EXTENDS Integers, Sequences, FiniteSets, TLC

(***************************************************************************)
(* Bounds of the model.                                                    *)
(***************************************************************************)
\* Rows of the large uploaded tables (a z-score above 3 needs 11 values).
NBig == 12
\* Uploads in one session: the first file, then re-uploads of the export.
MaxUploads == 2

(***************************************************************************)
(* Small helpers on sequences and numbers.                                 *)
(***************************************************************************)
Range(s) == {s[i] : i \in DOMAIN s}

Abs(x) == IF x < 0 THEN -x ELSE x

RECURSIVE Pow10(_)
Pow10(e) == IF e = 0 THEN 1 ELSE 10 * Pow10(e - 1)

RECURSIVE Concat(_)
Concat(ss) == IF ss = <<>> THEN <<>> ELSE Head(ss) \o Concat(Tail(ss))

RECURSIVE SumSeq(_)
SumSeq(s) == IF s = <<>> THEN 0 ELSE Head(s) + SumSeq(Tail(s))

Max2(a, b) == IF a >= b THEN a ELSE b

RECURSIVE MaxSeq(_)
MaxSeq(s) == IF s = <<>> THEN 0 ELSE Max2(Head(s), MaxSeq(Tail(s)))

IsDigit(c) == c >= 48 /\ c <= 57

(***************************************************************************)
(* Text decoding: what the codec named by read_csv's encoding= does to the *)
(* bytes.  A decoder returns the code points, ending in -1 where it raises *)
(* UnicodeDecodeError.                                                     *)
(***************************************************************************)
IsCont(b) == b >= 128 /\ b <= 191

RECURSIVE DecodeUtf8(_, _)
DecodeUtf8(b, i) ==
    IF i > Len(b) THEN <<>>
    ELSE LET c == b[i]
             n == Len(b)
         IN  IF c < 128 THEN <<c>> \o DecodeUtf8(b, i + 1)
             ELSE IF c >= 194 /\ c <= 223
             THEN IF i + 1 <= n /\ IsCont(b[i + 1])
                  THEN <<(c - 192) * 64 + (b[i + 1] - 128)>> \o DecodeUtf8(b, i + 2)
                  ELSE <<-1>>
             ELSE IF c >= 224 /\ c <= 239
             THEN IF /\ i + 2 <= n /\ IsCont(b[i + 1]) /\ IsCont(b[i + 2])
                     /\ (c = 224 => b[i + 1] >= 160)
                     /\ (c = 237 => b[i + 1] <= 159)
                  THEN <<(c - 224) * 4096 + (b[i + 1] - 128) * 64 + (b[i + 2] - 128)>>
                       \o DecodeUtf8(b, i + 3)
                  ELSE <<-1>>
             ELSE IF c >= 240 /\ c <= 244
             THEN IF /\ i + 3 <= n
                     /\ IsCont(b[i + 1]) /\ IsCont(b[i + 2]) /\ IsCont(b[i + 3])
                     /\ (c = 240 => b[i + 1] >= 144)
                     /\ (c = 244 => b[i + 1] <= 143)
                  THEN <<(c - 240) * 262144 + (b[i + 1] - 128) * 4096
                         + (b[i + 2] - 128) * 64 + (b[i + 3] - 128)>>
                       \o DecodeUtf8(b, i + 4)
                  ELSE <<-1>>
             ELSE <<-1>>

\* The trail bytes of the Unified Hangul Code extension.
IsUhcTrail(t) == (t >= 65 /\ t <= 90) \/ (t >= 97 /\ t <= 122) \/ (t >= 129 /\ t <= 254)

\* A two-byte cp949 sequence: the UHC extension (lead 0x81..0xC5 with any
\* trail, lead 0xC6 with trail 0x41..0x52) or a KS X 1001 cell (lead and trail
\* 0xA1..0xFE).  The cells KS X 1001 leaves unassigned are taken as assigned.
IsCp949Pair(l, t) ==
    \/ l >= 129 /\ l <= 197 /\ IsUhcTrail(t)
    \/ l = 198 /\ t >= 65 /\ t <= 82
    \/ l >= 161 /\ l <= 254 /\ t >= 161 /\ t <= 254

\* A cp949 pair decodes to one character.  In place of its Unicode code point
\* (a table of 17,000 entries) it is numbered 65536 + lead*256 + trail: one
\* number per pair, and none that the other two decoders give the uploads.
RECURSIVE DecodeCp949(_, _)
DecodeCp949(b, i) ==
    IF i > Len(b) THEN <<>>
    ELSE LET c == b[i]
         IN  IF c < 128 THEN <<c>> \o DecodeCp949(b, i + 1)
             ELSE IF i + 1 <= Len(b) /\ IsCp949Pair(c, b[i + 1])
             THEN <<65536 + c * 256 + b[i + 1]>> \o DecodeCp949(b, i + 2)
             ELSE <<-1>>

\* ISO-8859-1 maps every byte to the code point of the same number.
DecodeLatin1(b) == b

encodings_to_try == <<"utf-8", "cp949", "ISO-8859-1">>

Decode(b, enc) ==
    CASE enc = "utf-8" -> DecodeUtf8(b, 1)
      [] enc = "cp949" -> DecodeCp949(b, 1)
      [] OTHER -> DecodeLatin1(b)

DecodeOk(chars) == chars = <<>> \/ chars[Len(chars)] # -1

(***************************************************************************)
(* The CSV tokenizer of read_csv with its defaults: lines end at \n or \r, *)
(* blank lines are skipped, fields are split at commas, a field written    *)
(* "" is the empty field.                                                  *)
(***************************************************************************)
IsEol(c) == c = 10 \/ c = 13

\* The lines of the stream, without their terminators.  (The bytes 10 and 13
\* are never part of a multi-byte sequence of any of the three encodings, so
\* the lines of the decoded text are the decoded lines of the bytes.)
SplitLines(b) ==
    LET ends == {i \in 1..Len(b) : IsEol(b[i])}
                \cup (IF b # <<>> /\ ~IsEol(b[Len(b)]) THEN {Len(b) + 1} ELSE {})
        from(e) == IF \E x \in ends : x < e
                   THEN (CHOOSE x \in ends : x < e /\ \A y \in ends : y < e => y <= x) + 1
                   ELSE 1
        nth(k) == CHOOSE e \in ends : Cardinality({x \in ends : x <= e}) = k
    IN  [k \in 1..Cardinality(ends) |-> SubSeq(b, from(nth(k)), nth(k) - 1)]

\* The text of the stream in the encoding, line by line.
DecodeLines(b, enc) ==
    LET ls == SplitLines(b) IN [k \in 1..Len(ls) |-> Decode(ls[k], enc)]

RECURSIVE SplitFields(_, _)
SplitFields(line, cur) ==
    IF line = <<>> THEN <<cur>>
    ELSE IF Head(line) = 44
         THEN <<cur>> \o SplitFields(Tail(line), <<>>)
         ELSE SplitFields(Tail(line), Append(cur, Head(line)))

Unquote(f) ==
    IF Len(f) >= 2 /\ f[1] = 34 /\ f[Len(f)] = 34
    THEN SubSeq(f, 2, Len(f) - 1) ELSE f

NonBlank(lines) == SelectSeq(lines, LAMBDA l : l # <<>>)

Tokenize(lines) ==
    LET ls == NonBlank(lines)
    IN  [i \in 1..Len(ls) |->
            LET fs == SplitFields(ls[i], <<>>)
            IN  [j \in 1..Len(fs) |-> Unquote(fs[j])]]

(***************************************************************************)
(* Cell values.  One record shape for all of them:                         *)
(*   "num"  the decimal m * 10^-e, with m not a multiple of 10 unless e=0  *)
(*   "nan"  a missing value (NaN)                                          *)
(*   "str"  the text s                                                     *)
(*   "ts"   the instant s = <<year, month, day, hour, minute, second, ns>> *)
(*   "nat"  a missing instant (NaT)                                        *)
(***************************************************************************)
NaN == [k |-> "nan", m |-> 0, e |-> 0, s |-> <<>>]
NaT == [k |-> "nat", m |-> 0, e |-> 0, s |-> <<>>]
Num(m, e) == [k |-> "num", m |-> m, e |-> e, s |-> <<>>]
Str(s) == [k |-> "str", m |-> 0, e |-> 0, s |-> s]
Ts(t) == [k |-> "ts", m |-> 0, e |-> 0, s |-> t]

\* The table read_csv could not produce (df = None), and a table.
NoTable == [ok |-> FALSE, cols |-> <<>>, dtype |-> <<>>, rows |-> <<>>]
Table(cols, dtype, rows) == [ok |-> TRUE, cols |-> cols, dtype |-> dtype, rows |-> rows]

NRows(t) == Len(t.rows)
NCols(t) == Len(t.cols)
ColPos(t, name) == CHOOSE j \in 1..Len(t.cols) : t.cols[j] = name
Column(t, name) == [i \in 1..Len(t.rows) |-> t.rows[i].v[ColPos(t, name)]]
Index(t) == [i \in 1..Len(t.rows) |-> t.rows[i].idx]

(***************************************************************************)
(* Number parsing and column type inference of read_csv.                   *)
(***************************************************************************)
RECURSIVE DigitsToInt(_, _)
DigitsToInt(ds, acc) ==
    IF ds = <<>> THEN acc ELSE DigitsToInt(Tail(ds), acc * 10 + (Head(ds) - 48))

RECURSIVE Normalize(_, _)
Normalize(m, e) ==
    IF e > 0 /\ m % 10 = 0 THEN Normalize(m \div 10, e - 1) ELSE <<m, e>>

\* [+-]digits[.digits] or [+-].digits: the integer and plain decimal literals.
\* (Exponents, inf and the boolean words are outside the uploads modelled.)
ParseNumber(cell) ==
    LET signed == cell # <<>> /\ (cell[1] = 45 \/ cell[1] = 43)
        neg == signed /\ cell[1] = 45
        body == IF signed THEN Tail(cell) ELSE cell
        dots == {i \in 1..Len(body) : body[i] = 46}
        dot == IF dots = {} THEN 0 ELSE CHOOSE i \in dots : TRUE
        ip == IF dot = 0 THEN body ELSE SubSeq(body, 1, dot - 1)
        fp == IF dot = 0 THEN <<>> ELSE SubSeq(body, dot + 1, Len(body))
        ok == /\ Cardinality(dots) <= 1
              /\ Len(ip) + Len(fp) >= 1
              /\ \A i \in 1..Len(ip) : IsDigit(ip[i])
              /\ \A i \in 1..Len(fp) : IsDigit(fp[i])
        mag == DigitsToInt(ip \o fp, 0)
        ne == Normalize(mag, Len(fp))
    IN  [ok |-> ok, isint |-> ok /\ dot = 0,
         m |-> IF ok THEN (IF neg THEN -ne[1] ELSE ne[1]) ELSE 0,
         e |-> IF ok THEN ne[2] ELSE 0]

\* Some of read_csv's default na_values: "", NA, NaN, nan, null, NULL, N/A.
NaStrings ==
    { <<>>, <<78, 65>>, <<78, 97, 78>>, <<110, 97, 110>>,
      <<110, 117, 108, 108>>, <<78, 85, 76, 76>>, <<78, 47, 65>> }

IsNa(cell) == cell \in NaStrings

\* The dtype read_csv infers for a column from its cells, column-wide.
InferDtype(cells) ==
    LET present == {i \in 1..Len(cells) : ~IsNa(cells[i])}
    IN  IF cells = <<>> THEN "object"
        ELSE IF \E i \in present : ~ParseNumber(cells[i]).ok THEN "object"
        ELSE IF present = 1..Len(cells) /\ \A i \in present : ParseNumber(cells[i]).isint
             THEN "int64"
             ELSE "float64"

ConvertCell(cell, dtype) ==
    IF IsNa(cell) THEN NaN
    ELSE IF dtype = "object" THEN Str(cell)
    ELSE LET p == ParseNumber(cell) IN Num(p.m, p.e)

\* The table of a tokenized text: the first line names the columns, a short
\* row is padded with missing values, a row longer than the header is a
\* ParserError (the implicit-index reading of such a file is not modelled).
BuildTable(tokens) ==
    LET header == tokens[1]
        data == Tail(tokens)
        nc == Len(header)
        cell(i, j) == IF j <= Len(data[i]) THEN data[i][j] ELSE <<>>
        dtype == [j \in 1..nc |-> InferDtype([i \in 1..Len(data) |-> cell(i, j)])]
    IN  IF \E i \in 1..Len(data) : Len(data[i]) > nc THEN NoTable
        ELSE Table(header, dtype,
                   [i \in 1..Len(data) |->
                       [idx |-> i - 1,
                        v |-> [j \in 1..nc |-> ConvertCell(cell(i, j), dtype[j])]]])

\* pd.read_csv(stream, encoding=enc) on the bytes left in the stream: NoTable
\* where it raises (UnicodeDecodeError, EmptyDataError, ParserError).
read_csv(bytes, enc) ==
    LET lines == DecodeLines(bytes, enc)
        tokens == Tokenize(lines)
    IN  IF \E k \in 1..Len(lines) : ~DecodeOk(lines[k]) THEN NoTable
        ELSE IF tokens = <<>> THEN NoTable
        ELSE BuildTable(tokens)

(***************************************************************************)
(* Timestamps: pd.to_datetime(errors='coerce'), instants and their dates.  *)
(***************************************************************************)
\* The name the script looks for: "timestamp".
TimestampName == <<116, 105, 109, 101, 115, 116, 97, 109, 112>>

\* The number written by the digits cell[i..j], or -1 if one is no digit.
NumAt(cell, i, j) ==
    IF j <= Len(cell) /\ \A x \in i..j : IsDigit(cell[x])
    THEN DigitsToInt(SubSeq(cell, i, j), 0) ELSE -1

IsLeap(y) == (y % 4 = 0 /\ y % 100 # 0) \/ y % 400 = 0

DaysInMonth(y, mo) ==
    IF mo = 2 THEN (IF IsLeap(y) THEN 29 ELSE 28)
    ELSE IF mo \in {4, 6, 9, 11} THEN 30 ELSE 31

\* The instant a text cell names, for the ISO layouts YYYY-MM-DD,
\* YYYY-MM-DD HH:MM, YYYY-MM-DD HH:MM:SS and YYYY-MM-DD HH:MM:SS.fffffffff;
\* any other text is coerced to NaT.  (A column mixing layouts is parsed
\* differently by different pandas versions; the uploads modelled hold one
\* layout per column.)
ParseTimestamp(cell) ==
    LET n == Len(cell)
        y == NumAt(cell, 1, 4)
        mo == NumAt(cell, 6, 7)
        d == NumAt(cell, 9, 10)
        h == IF n >= 16 THEN NumAt(cell, 12, 13) ELSE 0
        mi == IF n >= 16 THEN NumAt(cell, 15, 16) ELSE 0
        sec == IF n >= 19 THEN NumAt(cell, 18, 19) ELSE 0
        fr == IF n >= 21 THEN NumAt(cell, 21, n) ELSE 0
        ns == IF n >= 21 /\ fr >= 0 THEN fr * Pow10(29 - n) ELSE fr
        layout == /\ n \in {10, 16, 19} \cup (21..29)
                  /\ cell[5] = 45 /\ cell[8] = 45
                  /\ (n >= 16 => (cell[11] = 32 \/ cell[11] = 84) /\ cell[14] = 58)
                  /\ (n >= 19 => cell[17] = 58)
                  /\ (n >= 21 => cell[20] = 46)
        valid == /\ layout
                 /\ y >= 1 /\ mo >= 1 /\ mo <= 12
                 /\ d >= 1 /\ d <= DaysInMonth(y, mo)
                 /\ h >= 0 /\ h <= 23 /\ mi >= 0 /\ mi <= 59
                 /\ sec >= 0 /\ sec <= 59 /\ ns >= 0
    IN  IF valid THEN Ts(<<y, mo, d, h, mi, sec, ns>>) ELSE NaT

\* A number is taken as nanoseconds since 1970-01-01 (within a second of it
\* here: the model's integers are 32 bits wide).
FromNanoseconds(v) ==
    LET n == IF v.e = 0 THEN v.m ELSE v.m \div Pow10(v.e)
    IN  IF n >= 0 /\ n < 1000000000 THEN Ts(<<1970, 1, 1, 0, 0, 0, n>>)
        ELSE IF n < 0 /\ n > -1000000000
        THEN Ts(<<1969, 12, 31, 23, 59, 59, 1000000000 + n>>)
        ELSE NaT

to_datetime(v) ==
    CASE v.k = "str" -> ParseTimestamp(v.s)
      [] v.k = "num" -> FromNanoseconds(v)
      [] v.k = "ts" -> v
      [] OTHER -> NaT

\* a < b for instants (or dates): the tuples compared field by field.
RECURSIVE LexLess(_, _)
LexLess(a, b) ==
    IF a = <<>> \/ b = <<>> THEN FALSE
    ELSE IF Head(a) # Head(b) THEN Head(a) < Head(b)
    ELSE LexLess(Tail(a), Tail(b))

LexLeq(a, b) == a = b \/ LexLess(a, b)

\* Timestamp.date(): the date portion of an instant.
DateOf(t) == SubSeq(t, 1, 3)

\* No row dropped.
DropNothing(rows, j) == rows

\* df.dropna(subset=['timestamp']) on the rows of a table.
DropNaT(rows, j) == SelectSeq(rows, LAMBDA r : r.v[j].k = "ts")

\* Every order sort_values("timestamp") may leave the rows in: ascending by
\* instant; rows of equal instants in any order (its default kind, quicksort,
\* is not a stable sort).
RECURSIVE SortedArrangements(_, _, _)
SortedArrangements(rows, j, left) ==
    IF left = {} THEN {<<>>}
    ELSE LET firsts == {i \in left :
                          \A x \in left : ~LexLess(rows[x].v[j].s, rows[i].v[j].s)}
         IN  UNION {{<<rows[i]>> \o rest :
                        rest \in SortedArrangements(rows, j, left \ {i})} : i \in firsts}

\* Lines 55-56: the timestamp column parsed, the rows without an instant dropped.
ParseAndDrop(t) ==
    LET j == ColPos(t, TimestampName)
        parsed == [i \in 1..NRows(t) |->
                      [t.rows[i] EXCEPT !.v[j] = to_datetime(t.rows[i].v[j])]]
    IN  Table(t.cols, [t.dtype EXCEPT ![j] = "datetime64"], DropNaT(parsed, j))

\* Series.min() / Series.max() of the timestamp column; NaT on an empty one.
MinInstant(t) ==
    LET c == Column(t, TimestampName)
    IN  IF c = <<>> THEN NaT
        ELSE CHOOSE v \in Range(c) : \A w \in Range(c) : LexLeq(v.s, w.s)

MaxInstant(t) ==
    LET c == Column(t, TimestampName)
    IN  IF c = <<>> THEN NaT
        ELSE CHOOSE v \in Range(c) : \A w \in Range(c) : LexLeq(w.s, v.s)

\* The instant itself compared with the dates taken at midnight.
InInstantRange(t, start, end) ==
    /\ LexLeq(start \o <<0, 0, 0, 0>>, t)
    /\ LexLeq(t, end \o <<0, 0, 0, 0>>)

\* Line 64: the date of the row's timestamp within [start_date, end_date].
InDateRange(t, start, end) == LexLeq(start, DateOf(t)) /\ LexLeq(DateOf(t), end)

\* Line 65: df.loc[mask].
filter_by_date(t, start, end) ==
    LET j == ColPos(t, TimestampName)
    IN  Table(t.cols, t.dtype,
              SelectSeq(t.rows, LAMBDA r : InDateRange(r.v[j].s, start, end)))

\* The dates a user can pick in a date input: those of the table's rows.
DateChoices(t) == {DateOf(v.s) : v \in Range(Column(t, TimestampName))}

\* Lines 47: df.select_dtypes(include=np.number).columns.
select_numeric(t) ==
    {t.cols[j] : j \in {x \in 1..NCols(t) : t.dtype[x] \in {"int64", "float64"}}}

(***************************************************************************)
(* Column statistics, computed exactly.  A column's numbers are scaled to  *)
(* integers by 10^E, E the most decimals of any of them; n, S and Q are    *)
(* the count, the sum and the sum of squares of its values present.  A     *)
(* result is the fraction num/den, or nan.                                 *)
(***************************************************************************)
\* The fixed z-score threshold of line 84 (and 103).
Threshold == 3

Rat(num, den) == [nan |-> FALSE, num |-> num, den |-> den]
RatNaN == [nan |-> TRUE, num |-> 0, den |-> 0]

\* The values of a column of df[numeric_cols] take part as numbers; those of
\* a timestamp column that was selected as numeric are its instants, in ns.
IsPresent(v) == v.k = "num" \/ v.k = "ts"

ColScale(col) == MaxSeq([i \in 1..Len(col) |-> IF col[i].k = "num" THEN col[i].e ELSE 0])

Scaled(v, E) ==
    IF v.k = "num" THEN v.m * Pow10(E - v.e)
    ELSE IF v.s[1] = 1970 THEN v.s[7] ELSE v.s[7] - 1000000000

\* The scaled values present in a column, in row order.
Present(col) ==
    LET E == ColScale(col)
        kept == SelectSeq(col, IsPresent)
    IN  [i \in 1..Len(kept) |-> Scaled(kept[i], E)]

SumSq(xs) == SumSeq([i \in 1..Len(xs) |-> xs[i] * xs[i]])

\* Series.mean(): S / n, nan without a value.
Mean(col) ==
    LET xs == Present(col)
    IN  IF xs = <<>> THEN RatNaN
        ELSE Rat(SumSeq(xs), Len(xs) * Pow10(ColScale(col)))

\* The square of Series.std() (ddof = 1): (n*Q - S^2) / (n*(n-1)), nan
\* with fewer than two values.
StdSquared(col) ==
    LET xs == Present(col)
        n == Len(xs)
        S == SumSeq(xs)
    IN  IF n < 2 THEN RatNaN
        ELSE Rat(n * SumSq(xs) - S * S, n * (n - 1) * Pow10(2 * ColScale(col)))

\* Line 83, one cell: the square of |x - mean| / std.  With d = n*x - S and
\* D = n*Q - S^2 it is d^2*(n-1) / (n*D).  Floating point gives nan for a
\* missing x, a nan std, and 0/0; inf for a nonzero deviation over a zero std.
ZScore(col, i) ==
    LET xs == Present(col)
        n == Len(xs)
        S == SumSeq(xs)
        D == n * SumSq(xs) - S * S
        d == n * Scaled(col[i], ColScale(col)) - S
    IN  IF ~IsPresent(col[i]) \/ n < 2 THEN [nan |-> TRUE, inf |-> FALSE, num |-> 0, den |-> 0]
        ELSE IF D = 0
             THEN [nan |-> d = 0, inf |-> d # 0, num |-> 0, den |-> 0]
             ELSE [nan |-> FALSE, inf |-> FALSE, num |-> d * d * (n - 1), den |-> n * D]

\* A comparison in which nan counts as exceeding.
ExceedsOrNan(z) == z.nan \/ z.inf \/ z.num > Threshold * Threshold * z.den

\* Line 84, one cell: z > 3.  A comparison with nan is False.
Exceeds(z) ==
    /\ ~z.nan
    /\ (z.inf \/ z.num > Threshold * Threshold * z.den)

\* Line 83: the z-score of every row in every column of numeric_cols.
ZScores(t, cols) ==
    [i \in 1..NRows(t) |-> [c \in cols |-> ZScore(Column(t, c), i)]]

\* all(axis=1) in place of any(axis=1).
AllExceeds(zrow) == \A c \in DOMAIN zrow : Exceeds(zrow[c])

\* Line 84: (z_scores > 3).any(axis=1).
AnyExceeds(zrow) == \E c \in DOMAIN zrow : Exceeds(zrow[c])

Outliers(z) == [i \in 1..Len(z) |-> AnyExceeds(z[i])]

\* df[outliers]: the rows flagged, in table order.
RECURSIVE BoolSelect(_, _)
BoolSelect(rows, flags) ==
    IF rows = <<>> THEN <<>>
    ELSE (IF Head(flags) THEN <<Head(rows)>> ELSE <<>>)
         \o BoolSelect(Tail(rows), Tail(flags))

Subset(t, flags) == Table(t.cols, t.dtype, BoolSelect(t.rows, flags))

\* Line 103: ((z_scores > 3).sum() / len(df)) * 100; the division 0/0 of an
\* empty table is nan.
ExceedCount(z, c) == Cardinality({i \in 1..Len(z) : Exceeds(z[i][c])})

\* The ratio over the rows that have a value in the column.
OutlierRatioOfPresent(z, cols, n) ==
    [c \in cols |->
        LET k == Cardinality({i \in 1..Len(z) : ~z[i][c].nan})
        IN  IF k = 0 THEN RatNaN ELSE Rat(ExceedCount(z, c) * 100, k)]

OutlierRatio(z, cols, n) ==
    [c \in cols |-> IF n = 0 THEN RatNaN ELSE Rat(ExceedCount(z, c) * 100, n)]

\* Line 68, describe(): count, mean, std (squared), min, quartiles, max.
RECURSIVE SortNums(_)
SortNums(xs) ==
    IF xs = <<>> THEN <<>>
    ELSE LET mn == CHOOSE x \in Range(xs) : \A y \in Range(xs) : x <= y
             at == CHOOSE i \in 1..Len(xs) : xs[i] = mn
         IN  <<mn>> \o SortNums(SubSeq(xs, 1, at - 1) \o SubSeq(xs, at + 1, Len(xs)))

\* The k-th quartile by linear interpolation between order statistics.
Quartile(sorted, k, E) ==
    LET n == Len(sorted)
        h == (n - 1) * k
        lo == (h \div 4) + 1
        r == h % 4
        hi == IF lo < n THEN lo + 1 ELSE lo
    IN  IF n = 0 THEN RatNaN
        ELSE Rat(4 * sorted[lo] + r * (sorted[hi] - sorted[lo]), 4 * Pow10(E))

Describe(t, cols) ==
    [c \in cols |->
        LET col == Column(t, c)
            E == ColScale(col)
            xs == SortNums(Present(col))
            n == Len(xs)
        IN  [count |-> n,
             mean |-> Mean(col),
             std2 |-> StdSquared(col),
             min |-> IF n = 0 THEN RatNaN ELSE Rat(xs[1], Pow10(E)),
             q25 |-> Quartile(xs, 1, E),
             q50 |-> Quartile(xs, 2, E),
             q75 |-> Quartile(xs, 3, E),
             max |-> IF n = 0 THEN RatNaN ELSE Rat(xs[n], Pow10(E))]]

\* Line 113, corr(): Pearson's r over the rows where both columns have a
\* value.  With C = n*Sab - Sa*Sb, Va = n*Saa - Sa^2, Vb = n*Sbb - Sb^2 it is
\* C / sqrt(Va*Vb), kept as the three integers; nan when Va*Vb = 0 or n < 2.
Pearson(ca, cb) ==
    LET both == {i \in 1..Len(ca) : IsPresent(ca[i]) /\ IsPresent(cb[i])}
        rowsq == SelectSeq([i \in 1..Len(ca) |-> i], LAMBDA i : i \in both)
        a == [x \in 1..Len(rowsq) |-> Scaled(ca[rowsq[x]], ColScale(ca))]
        b == [x \in 1..Len(rowsq) |-> Scaled(cb[rowsq[x]], ColScale(cb))]
        n == Len(rowsq)
        C == n * SumSeq([x \in 1..n |-> a[x] * b[x]]) - SumSeq(a) * SumSeq(b)
        Va == n * SumSq(a) - SumSeq(a) * SumSeq(a)
        Vb == n * SumSq(b) - SumSeq(b) * SumSeq(b)
    IN  IF n < 2 \/ Va = 0 \/ Vb = 0 THEN [nan |-> TRUE, c |-> 0, va |-> 0, vb |-> 0]
        ELSE [nan |-> FALSE, c |-> C, va |-> Va, vb |-> Vb]

Corr(t, cols) ==
    [a \in cols |-> [b \in cols |-> Pearson(Column(t, a), Column(t, b))]]

(***************************************************************************)
(* to_csv(index=False).encode('utf-8'): the header line, then one line per *)
(* row, each value written the way its column's dtype is written.          *)
(***************************************************************************)
RECURSIVE IntToDigits(_)
IntToDigits(n) ==
    IF n < 10 THEN <<48 + n>> ELSE IntToDigits(n \div 10) \o <<48 + (n % 10)>>

RECURSIVE Padded(_, _)
Padded(n, width) ==
    IF width <= 0 THEN <<>>
    ELSE Padded(n \div 10, width - 1) \o <<48 + (n % 10)>>

\* An int64 value: its digits.
FormatInt(n) == IF n < 0 THEN <<45>> \o IntToDigits(-n) ELSE IntToDigits(n)

\* A float64 value: repr(float), which for the short decimals here is the
\* integer part, the point and the decimals (".0" for a whole number).
FormatFloat(v) ==
    LET a == Abs(v.m)
        p == Pow10(v.e)
    IN  (IF v.m < 0 THEN <<45>> ELSE <<>>)
        \o IntToDigits(a \div p) \o <<46>>
        \o (IF v.e = 0 THEN <<48>> ELSE Padded(a % p, v.e))

\* A datetime64 column is written as dates when every instant written is a
\* midnight, else with the time, and with 6 or 9 decimals of the second when
\* some instant has them.
FormatTimestamp(t, withTime, decimals) ==
    Padded(t[1], 4) \o <<45>> \o Padded(t[2], 2) \o <<45>> \o Padded(t[3], 2)
    \o (IF withTime
        THEN <<32>> \o Padded(t[4], 2) \o <<58>> \o Padded(t[5], 2)
             \o <<58>> \o Padded(t[6], 2)
             \o (IF decimals = 0 THEN <<>>
                 ELSE <<46>> \o Padded(t[7] \div Pow10(9 - decimals), decimals))
        ELSE <<>>)

FormatCell(v, dtype, withTime, decimals) ==
    CASE v.k = "nan" \/ v.k = "nat" -> <<>>
      [] v.k = "str" -> v.s
      [] v.k = "ts" -> FormatTimestamp(v.s, withTime, decimals)
      [] OTHER -> IF dtype = "int64" THEN FormatInt(v.m) ELSE FormatFloat(v)

RECURSIVE JoinFields(_)
JoinFields(fs) ==
    IF Len(fs) = 0 THEN <<>>
    ELSE IF Len(fs) = 1 THEN fs[1]
    ELSE fs[1] \o <<44>> \o JoinFields(Tail(fs))

\* A line that would be blank (one column, no value) is written "".
CsvLine(fs) ==
    LET l == JoinFields(fs) IN (IF l = <<>> THEN <<34, 34>> ELSE l) \o <<10>>

\* encode('utf-8'): each code point as its one to four bytes.
RECURSIVE EncodeUtf8(_)
EncodeUtf8(chars) ==
    IF chars = <<>> THEN <<>>
    ELSE LET c == Head(chars)
         IN  (IF c < 128 THEN <<c>>
              ELSE IF c < 2048 THEN <<192 + (c \div 64), 128 + (c % 64)>>
              ELSE IF c < 65536
                   THEN <<224 + (c \div 4096), 128 + ((c \div 64) % 64), 128 + (c % 64)>>
              ELSE <<240 + (c \div 262144), 128 + ((c \div 4096) % 64),
                     128 + ((c \div 64) % 64), 128 + (c % 64)>>)
             \o EncodeUtf8(Tail(chars))

\* to_csv() with its default index=True: the row labels as a first column.
to_csv_with_index(t) ==
    LET line(i) == CsvLine(<<FormatInt(t.rows[i].idx)>> \o
                       [j \in 1..NCols(t) |-> FormatCell(t.rows[i].v[j], t.dtype[j], TRUE, 9)])
    IN  EncodeUtf8(CsvLine(<<<<>>>> \o t.cols))
        \o Concat([i \in 1..NRows(t) |-> EncodeUtf8(line(i))])

\* Line 95: to_csv(index=False).
to_csv(t) ==
    LET tsvals(j) == {t.rows[i].v[j].s : i \in {x \in 1..NRows(t) : t.rows[x].v[j].k = "ts"}}
        withTime(j) == \E s \in tsvals(j) : SubSeq(s, 4, 7) # <<0, 0, 0, 0>>
        decimals(j) == IF \A s \in tsvals(j) : s[7] = 0 THEN 0
                       ELSE IF \A s \in tsvals(j) : s[7] % 1000 = 0 THEN 6 ELSE 9
        line(i) == CsvLine([j \in 1..NCols(t) |->
                       FormatCell(t.rows[i].v[j], t.dtype[j], withTime(j), decimals(j))])
    IN  EncodeUtf8(CsvLine(t.cols))
        \o Concat([i \in 1..NRows(t) |-> EncodeUtf8(line(i))])

(***************************************************************************)
(* The files a user uploads (line 24): CSV texts built from cells.         *)
(***************************************************************************)
RawLine(fs) == JoinFields(fs) \o <<10>>
Csv(lines) == Concat([i \in 1..Len(lines) |-> RawLine(lines[i])])

Digit(n) == <<48 + n>>
TempName == <<116, 101, 109, 112>>
PresName == <<112, 114, 101, 115>>
TagName == <<116, 97, 103>>
TextX == <<120>>
\* "2024-01-dd hh:00"
Stamp(d, h) ==
    <<50, 48, 50, 52, 45, 48, 49, 45>> \o Padded(d, 2) \o <<32>> \o Padded(h, 2)
    \o <<58, 48, 48>>

\* A column name or a text cell holding a character that is not ASCII, as
\* utf-8 (U+00E9), cp949 (0xBF 0xC2, 0xC3 0xA9) and ISO-8859-1 (0xE9) write it.
ForeignWords == { <<195, 169>>, <<191, 194>>, <<233>>, <<97, 233, 98>> }

EncodingUploads ==
    { Csv(<<<<w, TempName>>, <<TextX, Digit(1)>>, <<TextX, Digit(2)>>>>) : w \in ForeignWords }
    \cup { Csv(<<<<TagName, TempName>>, <<w, Digit(1)>>, <<TextX, Digit(2)>>>>) : w \in ForeignWords }
    \cup { Csv(<<<<TagName, TempName>>, <<TextX, Digit(1)>>>>) }

\* An empty file, blank lines, a header alone, and tables without a number.
TerminalUploads ==
    { <<>>, <<10>>,
      Csv(<<<<TagName, TempName>>>>),
      Csv(<<<<TimestampName, TempName>>>>),
      Csv(<<<<TagName>>, <<TextX>>>>),
      Csv(<<<<TimestampName, TagName>>, <<Stamp(1, 0), TextX>>>>),
      Csv(<<<<<<233>>>>>>) }

\* What a timestamp cell holds: instants of two days, a text that is no
\* instant, nothing.
StampCells == { Stamp(1, 0), Stamp(1, 9), Stamp(2, 0), TextX, <<>> }

TimeUploads ==
    UNION { { Csv(<<<<TimestampName, TempName>>>>
                  \o [i \in 1..n |-> <<st[i], Digit(i)>>]) :
               st \in [1..n -> StampCells] } : n \in 1..3 }

\* A timestamp column holding numbers only, and one named Timestamp.
NumericTimeUploads ==
    { Csv(<<<<TimestampName, TempName>>, <<Digit(3), Digit(1)>>,
            <<Digit(1), Digit(2)>>, <<Digit(2), Digit(3)>>>>),
      Csv(<<<<TimestampName, TempName>>>>
          \o [i \in 1..NBig |-> <<IntToDigits(NBig + 1 - i), Digit(IF i = 1 THEN 9 ELSE 1)>>]),
      Csv(<<<<<<84>> \o Tail(TimestampName), TempName>>,
            <<Stamp(2, 0), Digit(1)>>, <<TextX, Digit(2)>>>>) }

\* Tables of n rows with a temp column (1 everywhere but a 9 at row i, a
\* second 9 after it when two, nothing at row j), a pres column (5 but a 9
\* at row k) and, by variant, a tag column (x, but 7 at row i) or a timestamp
\* column (one day per row, latest first).
OutlierTable(n, i, two, j, k, variant) ==
    LET temp(r) == IF r = j THEN <<>>
                   ELSE IF r = i \/ (two /\ r = (i % n) + 1) THEN Digit(9) ELSE Digit(1)
        pres(r) == IF r = k THEN Digit(9) ELSE Digit(5)
        tag(r) == IF r = i THEN Digit(7) ELSE TextX
    IN  CASE variant = "tag" ->
               Csv(<<<<TempName, PresName, TagName>>>>
                   \o [r \in 1..n |-> <<temp(r), pres(r), tag(r)>>])
          [] variant = "time" ->
               Csv(<<<<TimestampName, TempName, PresName>>>>
                   \o [r \in 1..n |-> <<Stamp(n + 1 - r, r % 2), temp(r), pres(r)>>])
          [] OTHER ->
               Csv(<<<<TempName, PresName>>>>
                   \o [r \in 1..n |-> <<temp(r), pres(r)>>])

OutlierUploads ==
    UNION { { OutlierTable(n, i, two, j, k, variant) :
                i \in 0..n, two \in BOOLEAN, j \in {0, 2, n}, k \in {0, 1, n},
                variant \in {"plain", "tag"} } : n \in {1, 2, NBig} }
    \cup { OutlierTable(NBig, i, FALSE, 0, 0, "time") : i \in {0, 1, NBig} }

Uploads ==
    EncodingUploads \cup TerminalUploads \cup TimeUploads
    \cup NumericTimeUploads \cup OutlierUploads

(***************************************************************************)
(* The state of a session.                                                 *)
(***************************************************************************)
VARIABLES
    uploaded_file,       \* [present, bytes]: the uploader's value (line 24)
    pos,                 \* the read position of the uploaded stream
    enc_i,               \* the loop's place in encodings_to_try
    df,                  \* the working table; NoTable for None
    numeric_cols,        \* the names select_dtypes gave (line 47)
    timestamp_available, \* line 53, 58
    start_date, end_date,\* the two date inputs (lines 62-63)
    desc_df,             \* line 68
    z_scores, outliers,  \* lines 83-84
    shown,               \* df[outliers], the table of line 87
    csv_outliers,        \* line 94
    outlier_ratio,       \* line 103
    corr,                \* line 113
    selected_col,        \* line 122
    out,                 \* what the run wrote to the page, in order
    pc,                  \* the stage the run is at
    uploads,             \* files uploaded so far in the session
    df_loaded,           \* history: df as the loop of lines 29-34 left it
    df_normalized,       \* history: df as lines 54-58 left it
    prev_shown           \* history: the table shown by the run before a re-upload

vars == <<uploaded_file, pos, enc_i, df, numeric_cols, timestamp_available,
          start_date, end_date, desc_df, z_scores, outliers, shown,
          csv_outliers, outlier_ratio, corr, selected_col, out, pc, uploads,
          df_loaded, df_normalized, prev_shown>>

NoFile == [present |-> FALSE, bytes |-> <<>>]

\* The values every run of the script starts from.
FreshRun ==
    /\ pos' = 0
    /\ enc_i' = 1
    /\ df' = NoTable
    /\ numeric_cols' = {}
    /\ timestamp_available' = FALSE
    /\ start_date' = <<>>
    /\ end_date' = <<>>
    /\ desc_df' = <<>>
    /\ z_scores' = <<>>
    /\ outliers' = <<>>
    /\ shown' = NoTable
    /\ csv_outliers' = <<>>
    /\ outlier_ratio' = <<>>
    /\ corr' = <<>>
    /\ selected_col' = <<>>
    /\ out' = <<>>
    /\ pc' = "start"
    /\ df_loaded' = NoTable
    /\ df_normalized' = NoTable

Init ==
    /\ uploaded_file = NoFile
    /\ pos = 0
    /\ enc_i = 1
    /\ df = NoTable
    /\ numeric_cols = {}
    /\ timestamp_available = FALSE
    /\ start_date = <<>>
    /\ end_date = <<>>
    /\ desc_df = <<>>
    /\ z_scores = <<>>
    /\ outliers = <<>>
    /\ shown = NoTable
    /\ csv_outliers = <<>>
    /\ outlier_ratio = <<>>
    /\ corr = <<>>
    /\ selected_col = <<>>
    /\ out = <<>>
    /\ pc = "start"
    /\ uploads = 0
    /\ df_loaded = NoTable
    /\ df_normalized = NoTable
    /\ prev_shown = NoTable

Ended == pc \in {"done", "stopped", "crashed"}

(***************************************************************************)
(* The actions: the user's uploads, and the stages of a run of the script. *)
(***************************************************************************)
\* The user puts a file in the uploader, which reruns the script from the
\* top: a first file, or the export downloaded from the run just finished.
Upload ==
    /\ Ended
    /\ uploads < MaxUploads
    /\ \/ /\ uploads = 0
          /\ \E f \in Uploads : uploaded_file' = [present |-> TRUE, bytes |-> f]
       \/ /\ uploads > 0
          /\ pc = "done"
          /\ uploaded_file' = [present |-> TRUE, bytes |-> csv_outliers]
    /\ prev_shown' = shown
    /\ uploads' = uploads + 1
    /\ FreshRun

\* Lines 26, 138-139: without a file the run only asks for one.
Start ==
    /\ pc = "start"
    /\ \/ /\ uploaded_file.present
          /\ pc' = "load"
          /\ out' = out
       \/ /\ ~uploaded_file.present
          /\ pc' = "done"
          /\ out' = Append(out, "warning:upload")
    /\ UNCHANGED <<uploaded_file, pos, enc_i, df, numeric_cols, timestamp_available,
                   start_date, end_date, desc_df, z_scores, outliers, shown,
                   csv_outliers, outlier_ratio, corr, selected_col, uploads,
                   df_loaded, df_normalized, prev_shown>>

\* Lines 29-34, one turn of the loop: read_csv on the uploaded stream from
\* where the stream stands.  The stream is never rewound; a read, failed or
\* not, leaves it at its end (the reader's buffer takes a file of this size
\* whole before the codec meets its first bad byte).
ReadCsvAttempt ==
    /\ pc = "load"
    /\ LET rest == SubSeq(uploaded_file.bytes, pos + 1, Len(uploaded_file.bytes))
           t == read_csv(rest, encodings_to_try[enc_i])
       IN  /\ pos' = Len(uploaded_file.bytes)
           /\ \/ /\ t.ok
                 /\ df' = t
                 /\ df_loaded' = t
                 /\ pc' = "check_none"
                 /\ enc_i' = enc_i
              \/ /\ ~t.ok
                 /\ enc_i < Len(encodings_to_try)
                 /\ enc_i' = enc_i + 1
                 /\ UNCHANGED <<df, df_loaded, pc>>
              \/ /\ ~t.ok
                 /\ enc_i = Len(encodings_to_try)
                 /\ pc' = "check_none"
                 /\ UNCHANGED <<df, df_loaded, enc_i>>
    /\ UNCHANGED <<uploaded_file, numeric_cols, timestamp_available,
                   start_date, end_date, desc_df, z_scores, outliers, shown,
                   csv_outliers, outlier_ratio, corr, selected_col, out, uploads,
                   df_normalized, prev_shown>>

\* Lines 36-38.
CheckDecoded ==
    /\ pc = "check_none"
    /\ \/ /\ ~df.ok
          /\ out' = Append(out, "error:decode")
          /\ pc' = "stopped"
       \/ /\ df.ok
          /\ out' = out
          /\ pc' = "check_empty"
    /\ UNCHANGED <<uploaded_file, pos, enc_i, df, numeric_cols, timestamp_available,
                   start_date, end_date, desc_df, z_scores, outliers, shown,
                   csv_outliers, outlier_ratio, corr, selected_col, uploads,
                   df_loaded, df_normalized, prev_shown>>

\* A check for a table without columns only.
IsEmptyNoColumns(t) == NCols(t) = 0

\* df.empty: no row or no column.
IsEmpty(t) == NRows(t) = 0 \/ NCols(t) = 0

\* Lines 40-42.
CheckEmpty ==
    /\ pc = "check_empty"
    /\ \/ /\ IsEmpty(df)
          /\ out' = Append(out, "error:empty")
          /\ pc' = "stopped"
       \/ /\ ~IsEmpty(df)
          /\ out' = out
          /\ pc' = "preview"
    /\ UNCHANGED <<uploaded_file, pos, enc_i, df, numeric_cols, timestamp_available,
                   start_date, end_date, desc_df, z_scores, outliers, shown,
                   csv_outliers, outlier_ratio, corr, selected_col, uploads,
                   df_loaded, df_normalized, prev_shown>>

\* Lines 44-51: the preview, the numeric columns, the stop without any.
SelectNumeric ==
    /\ pc = "preview"
    /\ numeric_cols' = select_numeric(df)
    /\ \/ /\ numeric_cols' = {}
          /\ out' = out \o <<"subheader:preview", "info:no_numeric">>
          /\ pc' = "stopped"
       \/ /\ numeric_cols' # {}
          /\ out' = Append(out, "subheader:preview")
          /\ pc' = "normalize"
    /\ UNCHANGED <<uploaded_file, pos, enc_i, df, timestamp_available,
                   start_date, end_date, desc_df, z_scores, outliers, shown,
                   csv_outliers, outlier_ratio, corr, selected_col, uploads,
                   df_loaded, df_normalized, prev_shown>>

\* Lines 53-58: parse, drop, sort, when a column is named timestamp.
NormalizeTimestamp ==
    /\ pc = "normalize"
    /\ \/ /\ TimestampName \in Range(df.cols)
          /\ LET dropped == ParseAndDrop(df)
                 j == ColPos(df, TimestampName)
             IN  \E rows \in SortedArrangements(dropped.rows, j, 1..NRows(dropped)) :
                    df' = Table(dropped.cols, dropped.dtype, rows)
          /\ timestamp_available' = TRUE
       \/ /\ TimestampName \notin Range(df.cols)
          /\ df' = df
          /\ timestamp_available' = FALSE
    /\ df_normalized' = df'
    /\ pc' = "filter"
    /\ UNCHANGED <<uploaded_file, pos, enc_i, numeric_cols,
                   start_date, end_date, desc_df, z_scores, outliers, shown,
                   csv_outliers, outlier_ratio, corr, selected_col, out, uploads,
                   df_loaded, prev_shown>>

\* Lines 60-65.  Each date input holds the date the user picked, or its
\* default, the date of the least and of the greatest timestamp.  Of a table
\* without rows these are NaT.date(), which is NaT, and st.date_input raises
\* on a value that is no date: the run ends in an exception.
DateFilter ==
    /\ pc = "filter"
    /\ \/ /\ timestamp_available
          /\ NRows(df) > 0
          /\ \E s \in {DateOf(MinInstant(df).s)} \cup DateChoices(df),
                e \in {DateOf(MaxInstant(df).s)} \cup DateChoices(df) :
                /\ start_date' = s
                /\ end_date' = e
                /\ df' = filter_by_date(df, s, e)
          /\ out' = Append(out, "subheader:date_filter")
          /\ pc' = "describe"
       \/ /\ timestamp_available
          /\ NRows(df) = 0
          /\ out' = out \o <<"subheader:date_filter", "exception">>
          /\ pc' = "crashed"
          /\ UNCHANGED <<start_date, end_date, df>>
       \/ /\ ~timestamp_available
          /\ pc' = "describe"
          /\ UNCHANGED <<start_date, end_date, df, out>>
    /\ UNCHANGED <<uploaded_file, pos, enc_i, numeric_cols, timestamp_available,
                   desc_df, z_scores, outliers, shown,
                   csv_outliers, outlier_ratio, corr, selected_col, uploads,
                   df_loaded, df_normalized, prev_shown>>

\* Lines 67-80.
Summarize ==
    /\ pc = "describe"
    /\ desc_df' = Describe(df, numeric_cols)
    /\ out' = Append(out, "subheader:summary")
    /\ pc' = "detect"
    /\ UNCHANGED <<uploaded_file, pos, enc_i, df, numeric_cols, timestamp_available,
                   start_date, end_date, z_scores, outliers, shown,
                   csv_outliers, outlier_ratio, corr, selected_col, uploads,
                   df_loaded, df_normalized, prev_shown>>

\* Lines 82-92.
DetectOutliers ==
    /\ pc = "detect"
    /\ z_scores' = ZScores(df, numeric_cols)
    /\ outliers' = Outliers(z_scores')
    /\ shown' = Subset(df, outliers')
    /\ \/ /\ \E i \in 1..Len(outliers') : outliers'[i]
          /\ out' = out \o <<"subheader:outliers", "error:outliers_found">>
       \/ /\ \A i \in 1..Len(outliers') : ~outliers'[i]
          /\ out' = out \o <<"subheader:outliers", "success:normal">>
    /\ pc' = "export"
    /\ UNCHANGED <<uploaded_file, pos, enc_i, df, numeric_cols, timestamp_available,
                   start_date, end_date, desc_df,
                   csv_outliers, outlier_ratio, corr, selected_col, uploads,
                   df_loaded, df_normalized, prev_shown>>

\* Lines 94-100.
ExportCsv ==
    /\ pc = "export"
    /\ csv_outliers' = to_csv(Subset(df, outliers))
    /\ out' = Append(out, "download:outliers")
    /\ pc' = "ratio"
    /\ UNCHANGED <<uploaded_file, pos, enc_i, df, numeric_cols, timestamp_available,
                   start_date, end_date, desc_df, z_scores, outliers, shown,
                   outlier_ratio, corr, selected_col, uploads,
                   df_loaded, df_normalized, prev_shown>>

\* Lines 102-110.
ComputeRatio ==
    /\ pc = "ratio"
    /\ outlier_ratio' = OutlierRatio(z_scores, numeric_cols, NRows(df))
    /\ out' = Append(out, "subheader:ratio")
    /\ pc' = "corr"
    /\ UNCHANGED <<uploaded_file, pos, enc_i, df, numeric_cols, timestamp_available,
                   start_date, end_date, desc_df, z_scores, outliers, shown,
                   csv_outliers, corr, selected_col, uploads,
                   df_loaded, df_normalized, prev_shown>>

\* Lines 112-118.  With the timestamp column among numeric_cols the frame
\* holds instants; corr() turns it into floats, which one pandas does and
\* another refuses with a TypeError.
Correlate ==
    /\ pc = "corr"
    /\ \/ /\ corr' = Corr(df, numeric_cols)
          /\ out' = Append(out, "subheader:corr")
          /\ pc' = "series"
       \/ /\ \E c \in numeric_cols : df.dtype[ColPos(df, c)] = "datetime64"
          /\ out' = out \o <<"subheader:corr", "exception">>
          /\ pc' = "crashed"
          /\ corr' = corr
    /\ UNCHANGED <<uploaded_file, pos, enc_i, df, numeric_cols, timestamp_available,
                   start_date, end_date, desc_df, z_scores, outliers, shown,
                   csv_outliers, outlier_ratio, selected_col, uploads,
                   df_loaded, df_normalized, prev_shown>>

\* Lines 120-136.
TimeSeries ==
    /\ pc = "series"
    /\ \/ /\ timestamp_available
          /\ \E c \in numeric_cols : selected_col' = c
          /\ out' = Append(out, "subheader:timeseries")
       \/ /\ ~timestamp_available
          /\ selected_col' = selected_col
          /\ out' = Append(out, "info:no_timestamp")
    /\ pc' = "done"
    /\ UNCHANGED <<uploaded_file, pos, enc_i, df, numeric_cols, timestamp_available,
                   start_date, end_date, desc_df, z_scores, outliers, shown,
                   csv_outliers, outlier_ratio, corr, uploads,
                   df_loaded, df_normalized, prev_shown>>

Next ==
    \/ Upload
    \/ Start
    \/ ReadCsvAttempt
    \/ CheckDecoded
    \/ CheckEmpty
    \/ SelectNumeric
    \/ NormalizeTimestamp
    \/ DateFilter
    \/ Summarize
    \/ DetectOutliers
    \/ ExportCsv
    \/ ComputeRatio
    \/ Correlate
    \/ TimeSeries

Spec == Init /\ [][Next]_vars

(***************************************************************************)
(* Where a run stands.                                                     *)
(***************************************************************************)
HasFile == uploaded_file.present

\* The loop of lines 29-34 is over.
Loaded == HasFile /\ pc \notin {"start", "load"}

\* The run came past the three terminal checks.
PastChecks ==
    pc \in {"normalize", "filter", "describe", "detect", "export", "ratio",
            "corr", "series", "done", "crashed"}

\* Lines 54-58 are over.
PastNormalize ==
    pc \in {"filter", "describe", "detect", "export", "ratio", "corr", "series",
            "done", "crashed"}

\* Lines 60-65 are over, and did not raise.
PastFilter ==
    pc \in {"describe", "detect", "export", "ratio", "corr", "series", "done"}
    \/ (pc = "crashed" /\ z_scores # <<>>)

PastDetect ==
    pc \in {"export", "ratio", "corr", "series", "done"}
    \/ (pc = "crashed" /\ z_scores # <<>>)

PastExport == pc \in {"ratio", "corr", "series", "done"} \/ (pc = "crashed" /\ z_scores # <<>>)

PastRatio == pc \in {"corr", "series", "done"} \/ (pc = "crashed" /\ z_scores # <<>>)

Count(seq, x) == Cardinality({i \in 1..Len(seq) : seq[i] = x})

TerminalMessages == {"error:decode", "error:empty", "info:no_numeric"}

LaterStageOutputs ==
    {"subheader:date_filter", "subheader:summary", "subheader:outliers",
     "error:outliers_found", "success:normal", "download:outliers",
     "subheader:ratio", "subheader:corr", "subheader:timeseries",
     "info:no_timestamp"}

(***************************************************************************)
(* C1.  For every encoding E of the list and every stream validly encoded  *)
(* in E and parseable as CSV with at least one data row, the loop ends     *)
(* with a table (no decode failure) whose row and column counts are those  *)
(* of the CSV, also when earlier encodings were tried on the stream and    *)
(* failed.                                                                 *)
(***************************************************************************)
C1_LoaderPreservesShape ==
    Loaded =>
        \A k \in 1..Len(encodings_to_try) :
            LET orig == read_csv(uploaded_file.bytes, encodings_to_try[k])
            IN  (orig.ok /\ NRows(orig) >= 1) =>
                    /\ df_loaded.ok
                    /\ NRows(df_loaded) = NRows(orig)
                    /\ NCols(df_loaded) = NCols(orig)

(***************************************************************************)
(* C2.  The terminal conditions are checked in the order decode failure,   *)
(* empty input, no numeric column; the first that holds is reported        *)
(* exactly once and halts the run, and no later stage runs.                *)
(***************************************************************************)
FirstTerminal ==
    IF ~df_loaded.ok THEN "error:decode"
    ELSE IF NRows(df_loaded) = 0 THEN "error:empty"
    ELSE IF \A j \in 1..NCols(df_loaded) : df_loaded.dtype[j] \notin {"int64", "float64"}
         THEN "info:no_numeric"
    ELSE "none"

NoLaterStageRan ==
    /\ Range(out) \cap LaterStageOutputs = {}
    /\ ~timestamp_available /\ start_date = <<>> /\ end_date = <<>>
    /\ df = df_loaded
    /\ desc_df = <<>> /\ z_scores = <<>> /\ outliers = <<>>
    /\ csv_outliers = <<>> /\ outlier_ratio = <<>> /\ corr = <<>>
    /\ selected_col = <<>>

C2_TerminalOrder ==
    /\ (HasFile /\ pc = "stopped") =>
          /\ FirstTerminal # "none"
          /\ Count(out, FirstTerminal) = 1
          /\ \A m \in TerminalMessages \ {FirstTerminal} : Count(out, m) = 0
          /\ NoLaterStageRan
    /\ (HasFile /\ PastChecks) =>
          /\ FirstTerminal = "none"
          /\ Range(out) \cap TerminalMessages = {}
    /\ (HasFile /\ pc = "check_empty") => df_loaded.ok
    /\ (HasFile /\ pc = "preview") => (df_loaded.ok /\ NRows(df_loaded) > 0)

\* A header-only CSV was reported as empty input, and the run halted there.
C2_Witness ==
    /\ pc = "stopped"
    /\ out = <<"error:empty">>
    /\ df_loaded.ok /\ NCols(df_loaded) = 2 /\ NRows(df_loaded) = 0

(***************************************************************************)
(* C3.  With a column named timestamp, after parse, drop and sort the      *)
(* working table holds exactly the input rows whose timestamp parsed to an *)
(* instant, none missing, in ascending order, and this still holds of the  *)
(* table every later stage sees after the date filter.  Without such a     *)
(* column the rows and their order are unchanged.                          *)
(***************************************************************************)
HadTimestamp == TimestampName \in Range(df_loaded.cols)

\* The rows of the loaded table whose timestamp is an instant, by index label.
ValidLabels ==
    LET j == ColPos(df_loaded, TimestampName)
    IN  {df_loaded.rows[i].idx :
            i \in {x \in 1..NRows(df_loaded) : to_datetime(df_loaded.rows[x].v[j]).k = "ts"}}

LoadedRow(label) == CHOOSE r \in Range(df_loaded.rows) : r.idx = label

\* The row is the loaded row of its label, its timestamp parsed.
SameRow(r) ==
    LET j == ColPos(df_loaded, TimestampName)
        l == LoadedRow(r.idx)
    IN  /\ r.v[j] = to_datetime(l.v[j])
        /\ \A c \in 1..NCols(df_loaded) : c # j => r.v[c] = l.v[c]

Ascending(t) ==
    LET j == ColPos(t, TimestampName)
    IN  /\ \A i \in 1..NRows(t) : t.rows[i].v[j].k = "ts"
        /\ \A i \in 1..(NRows(t) - 1) :
              LexLeq(t.rows[i].v[j].s, t.rows[i + 1].v[j].s)

NoDuplicate(t) == Cardinality(Range(Index(t))) = NRows(t)

C3_Normalized ==
    PastNormalize =>
        IF HadTimestamp
        THEN /\ Range(Index(df_normalized)) = ValidLabels
             /\ NoDuplicate(df_normalized)
             /\ \A r \in Range(df_normalized.rows) : SameRow(r)
             /\ Ascending(df_normalized)
             /\ Range(df.rows) \subseteq Range(df_normalized.rows)
             /\ NoDuplicate(df)
             /\ Ascending(df)
        ELSE /\ df_normalized = df_loaded
             /\ df = df_loaded

\* Three rows came in out of order, one of them without an instant; the
\* other two are there, sorted.
C3_Witness ==
    /\ pc = "filter"
    /\ HadTimestamp
    /\ NRows(df_loaded) = 3
    /\ Index(df_normalized) = <<2, 0>>

\* A table without a timestamp column went through unchanged.
C3_WitnessNoColumn ==
    /\ pc = "done"
    /\ ~HadTimestamp
    /\ NRows(df) = NBig

(***************************************************************************)
(* C4.  The date filter keeps a row iff the date of its timestamp lies in  *)
(* [start_date, end_date], whatever its time of day, and with the default  *)
(* range removes no row.                                                   *)
(***************************************************************************)
DateOfRow(t, r) == DateOf(r.v[ColPos(t, TimestampName)].s)

Filtered == PastFilter /\ timestamp_available

C4_DateFilter ==
    Filtered =>
        /\ \A i \in 1..NRows(df_normalized) :
              LET r == df_normalized.rows[i]
                  d == DateOfRow(df_normalized, r)
              IN  (r \in Range(df.rows))
                  <=> (~LexLess(d, start_date) /\ ~LexLess(end_date, d))
        /\ Range(df.rows) \subseteq Range(df_normalized.rows)
        /\ (/\ start_date = DateOf(MinInstant(df_normalized).s)
            /\ end_date = DateOf(MaxInstant(df_normalized).s))
               => df = df_normalized

\* A row of the end date, at nine in the morning, was kept, and a row of a
\* later date was removed.
C4_Witness ==
    /\ pc = "describe"
    /\ timestamp_available
    /\ start_date = end_date
    /\ NRows(df) < NRows(df_normalized)
    /\ \E r \in Range(df.rows) :
          /\ DateOfRow(df, r) = end_date
          /\ r.v[ColPos(df, TimestampName)].s[4] = 9

(***************************************************************************)
(* C5.  When normalization and filtering leave no row, because the range   *)
(* excludes every row or because no timestamp parsed, the run raises no    *)
(* error and does not halt: the mask is empty, the export has no data row, *)
(* and every outlier ratio is undefined.                                   *)
(***************************************************************************)
C5_EmptyTableGraceful ==
    (HasFile /\ timestamp_available /\ NRows(df) = 0 /\ pc # "filter") =>
        /\ pc \notin {"crashed", "stopped"}
        /\ "exception" \notin Range(out)
        /\ (PastDetect => outliers = <<>>)
        /\ (PastExport => Len(SplitLines(csv_outliers)) = 1)
        /\ (PastRatio => \A c \in numeric_cols : outlier_ratio[c].nan)

(***************************************************************************)
(* The z-score comparison by its definition, for the claims: with the      *)
(* values x_1..x_n present in the column, mean = S/n and sample variance   *)
(* sum (x_j - mean)^2 / (n-1); in integers, with d_j = n*x_j - S, the      *)
(* z-score of x_i is above 3 iff d_i^2 * (n-1) > 9 * sum d_j^2.            *)
(***************************************************************************)
Deviations(col) ==
    LET xs == Present(col)
        n == Len(xs)
        S == SumSeq(xs)
    IN  [j \in 1..n |-> n * xs[j] - S]

RefExceeds(t, c, i) ==
    LET col == Column(t, c)
        ds == Deviations(col)
        n == Len(ds)
        SS == SumSq(ds)
        d == n * Scaled(col[i], ColScale(col)) - SumSeq(Present(col))
    IN  /\ IsPresent(col[i])
        /\ n >= 2
        /\ SS > 0
        /\ d * d * (n - 1) > Threshold * Threshold * SS

\* The sample standard deviation of the column is zero or undefined.
NoSpread(t, c) ==
    LET xs == Present(Column(t, c))
    IN  Len(xs) < 2 \/ \A a \in Range(xs), b \in Range(xs) : a = b

(***************************************************************************)
(* C6.  The outlier mask has one boolean per row of the filtered table,    *)
(* true iff some numeric column has a defined z-score strictly above 3.    *)
(***************************************************************************)
C6_OutlierMask ==
    PastDetect =>
        /\ Len(outliers) = NRows(df)
        /\ \A i \in 1..NRows(df) :
              outliers[i] <=> \E c \in numeric_cols : RefExceeds(df, c, i)

\* Two numeric columns; a row flagged for one column only, a row not flagged.
C6_Witness ==
    /\ pc = "export"
    /\ Cardinality(numeric_cols) = 2
    /\ \E i \in 1..NRows(df) :
          /\ outliers[i]
          /\ \E c \in numeric_cols : ~RefExceeds(df, c, i)
    /\ \E i \in 1..NRows(df) : ~outliers[i]

(***************************************************************************)
(* C7.  A numeric column whose sample standard deviation is zero or        *)
(* undefined flags no row and has an exceed count of zero: its z-score     *)
(* compared with the threshold is false for every row; a row is flagged    *)
(* only if another column exceeds.                                         *)
(***************************************************************************)
C7_ZeroVariance ==
    PastDetect =>
        \A c \in numeric_cols :
            NoSpread(df, c) =>
                /\ \A i \in 1..NRows(df) : ~Exceeds(z_scores[i][c])
                /\ \A i \in 1..NRows(df) :
                      outliers[i] => \E c2 \in numeric_cols \ {c} : RefExceeds(df, c2, i)
                /\ (PastRatio /\ NRows(df) > 0) => outlier_ratio[c] = Rat(0, NRows(df))

\* A constant column beside a column with an outlier: the row is flagged,
\* the constant column counts nothing.
C7_Witness ==
    /\ pc = "corr"
    /\ \E c \in numeric_cols :
          /\ NoSpread(df, c)
          /\ Len(Present(Column(df, c))) = NBig
          /\ outlier_ratio[c].num = 0
    /\ \E i \in 1..NRows(df) : outliers[i]

\* A table of a single row: every standard deviation is undefined.
C7_WitnessSingleRow ==
    /\ pc = "corr"
    /\ NRows(df) = 1
    /\ outliers = <<FALSE>>

(***************************************************************************)
(* C8.  CSV export round trip.  As claimed: for every mask, also one with  *)
(* no true value, the export holds exactly the rows flagged, and loading   *)
(* it again (the loop and the empty-input check) yields a table with the   *)
(* row count and the values of the table of outliers in memory.            *)
(***************************************************************************)
Reloaded == uploads >= 2 /\ Loaded

PastEmptyCheck == pc \notin {"start", "load", "check_none", "check_empty"}

C8_RoundTripEveryMask ==
    (Reloaded /\ PastEmptyCheck) =>
        /\ "error:empty" \notin Range(out)
        /\ df_loaded.ok
        /\ NRows(df_loaded) = NRows(prev_shown)
        /\ \A i \in 1..NRows(prev_shown) : df_loaded.rows[i].v = prev_shown.rows[i].v

(***************************************************************************)
(* C8 as amended.  The export holds exactly the rows flagged, in table     *)
(* order.  With at least one row flagged, loading it again yields a table  *)
(* of the same row count and columns, and in every numeric column the same *)
(* dtype and values; with no row flagged it yields the header alone, which *)
(* the empty-input check reports.  (Text and timestamp columns come back   *)
(* as the text written.)                                                   *)
(***************************************************************************)
FlaggedLabels == {df.rows[i].idx : i \in {x \in 1..NRows(df) : outliers[x]}}

IsNumericDtype(d) == d \in {"int64", "float64"}

C8_RoundTrip ==
    /\ (HasFile /\ PastExport) =>
          /\ shown.rows = SelectSeq(df.rows, LAMBDA r : r.idx \in FlaggedLabels)
          /\ Len(SplitLines(csv_outliers)) = 1 + Count(outliers, TRUE)
    /\ (Reloaded /\ NRows(prev_shown) >= 1) =>
          /\ df_loaded.ok
          /\ df_loaded.cols = prev_shown.cols
          /\ NRows(df_loaded) = NRows(prev_shown)
          /\ \A j \in 1..NCols(prev_shown) :
                IsNumericDtype(prev_shown.dtype[j]) =>
                    /\ df_loaded.dtype[j] = prev_shown.dtype[j]
                    /\ \A i \in 1..NRows(prev_shown) :
                          df_loaded.rows[i].v[j] = prev_shown.rows[i].v[j]
          /\ PastEmptyCheck => "error:empty" \notin Range(out)
    /\ (Reloaded /\ NRows(prev_shown) = 0) =>
          /\ df_loaded.ok
          /\ df_loaded.cols = prev_shown.cols
          /\ NRows(df_loaded) = 0
          /\ PastEmptyCheck => (pc = "stopped" /\ out = <<"error:empty">>)

\* An export of flagged rows, one column of it float64, was loaded again.
C8_Witness ==
    /\ uploads = 2
    /\ pc = "check_empty"
    /\ NRows(df_loaded) >= 1
    /\ \E j \in 1..NCols(prev_shown) : prev_shown.dtype[j] = "float64"

(***************************************************************************)
(* C9.  For a filtered table with a row, OutlierRatio[c] is the number of  *)
(* rows whose z-score in c is above 3, over the table's row count (rows    *)
(* with c missing counted too), times 100; it lies in [0, 100]; and the    *)
(* mask has a true value iff some ratio is above 0.                        *)
(***************************************************************************)
RefCount(t, c) == Cardinality({i \in 1..NRows(t) : RefExceeds(t, c, i)})

C9_OutlierRatio ==
    (PastRatio /\ NRows(df) >= 1) =>
        /\ \A c \in numeric_cols :
              /\ outlier_ratio[c] = Rat(RefCount(df, c) * 100, NRows(df))
              /\ outlier_ratio[c].num >= 0
              /\ outlier_ratio[c].num <= 100 * outlier_ratio[c].den
        /\ (\E i \in 1..NRows(df) : outliers[i])
              <=> (\E c \in numeric_cols : outlier_ratio[c].num > 0)

\* A column with a value missing and an outlier: the ratio is over all rows.
C9_Witness ==
    /\ pc = "corr"
    /\ \E c \in numeric_cols :
          /\ Len(Present(Column(df, c))) < NRows(df)
          /\ outlier_ratio[c].num > 0
          /\ outlier_ratio[c].den = NRows(df)

(***************************************************************************)
(* C10.  Every column of the numeric column set, computed before the       *)
(* timestamp normalization, is still a numeric column of the working table *)
(* where the statistics are computed; the timestamp column is never one of *)
(* the set.                                                                *)
(***************************************************************************)
C10_NumericColsStayNumeric ==
    (HasFile /\ PastFilter) =>
        /\ TimestampName \notin numeric_cols
        /\ \A c \in numeric_cols : IsNumericDtype(df.dtype[ColPos(df, c)])

====
